---- MODULE Spec2Model ----
(***************************************************************************)
(* Temporal knowledge graph (kaljuvee/temporal-knowledge-graph).           *)
(*                                                                         *)
(* The model keeps Python's object semantics: Statement objects live in a  *)
(* heap and are named by reference, a KnowledgeGraph holds two dicts       *)
(* (insertion ordered, as Python's), statements: id -> Statement reference *)
(* and entities: name -> list of ids.  Instants (datetime) are naturals,   *)
(* an unset Optional[datetime] is None, an Optional[TemporalEvent] is a    *)
(* sequence of length 0 (None) or 1.                                       *)
(***************************************************************************)
EXTENDS Integers, Sequences, FiniteSets, TLC

VARIABLES
    heap,   \* the Statement objects created so far, heap[r] the fields of reference r
    kg,     \* the KnowledgeGraph: [statements |-> dict, entities |-> dict]
    last,   \* the name of the operation that ran last
    args,   \* the arguments of the function or read under test
    ret,    \* the value it returned
    file,   \* the file save_to_file wrote: <<>> (none yet) or <<data>>
    engine  \* query_engine.kg: <<>> when it is the object self.kg, else <<graph>>

vars == <<heap, kg, last, args, ret, file, engine>>

---------------------------------------------------------------------------
(* Bounds of the model *)

MaxObjs == 3        \* Statement objects ever created
MaxInv == 1         \* invalidation links in all up to which a direct invalidate is tried
MaxSentences == 2   \* sentences per document
MaxT == 3           \* instants are 0..MaxT
MaxTriplets == 2    \* triplets per statement handed to _statements_conflict
MaxExisting == 2    \* length of the list handed to check_invalidation

---------------------------------------------------------------------------
(* Data model: src/models.py *)

None == -1
IsSet(x) == x # None

Instants == 0..MaxT
OptInstants == Instants \cup {None}

Triplet(s, p, o) == [subject |-> s, predicate |-> p, object |-> o]

TemporalEvent(c, e, v, i) ==
    [t_created |-> c, t_expired |-> e, t_valid |-> v, t_invalid |-> i]

NoEvent == <<>>
Some(ev) == <<ev>>

\* Statement(id=..., text=..., temporal_class=..., fact_type=..., triplets=...,
\* temporal_event=...): invalidated_by starts as the empty list
StatementOf(id, text, temporal_class, fact_type, triplets, temporal_event) ==
    [id |-> id, text |-> text, temporal_class |-> temporal_class,
     fact_type |-> fact_type, triplets |-> triplets,
     temporal_event |-> temporal_event, invalidated_by |-> <<>>]

\* a static fact with the text "s"
Statement(id, triplets, temporal_event) ==
    StatementOf(id, "s", "static", "fact", triplets, temporal_event)

\* is_valid_at with the window closed at t_invalid (> for >=)
TemporalEvent_is_valid_at_closed_end(ev, timestamp) ==
    IF IsSet(ev.t_valid) /\ timestamp < ev.t_valid THEN FALSE
    ELSE IF IsSet(ev.t_invalid) /\ timestamp > ev.t_invalid THEN FALSE
    ELSE IF IsSet(ev.t_expired) /\ timestamp >= ev.t_expired THEN FALSE
    ELSE TRUE

\* TemporalEvent.is_valid_at: three early returns, then True.
TemporalEvent_is_valid_at(ev, timestamp) ==
    IF IsSet(ev.t_valid) /\ timestamp < ev.t_valid THEN FALSE
    ELSE IF IsSet(ev.t_invalid) /\ timestamp >= ev.t_invalid THEN FALSE
    ELSE IF IsSet(ev.t_expired) /\ timestamp >= ev.t_expired THEN FALSE
    ELSE TRUE

\* is_valid_at that also refuses a statement with invalidation links
Statement_is_valid_at_live(stmt, timestamp) ==
    IF stmt.invalidated_by # <<>> THEN FALSE
    ELSE IF stmt.temporal_event # NoEvent
         THEN TemporalEvent_is_valid_at(stmt.temporal_event[1], timestamp)
         ELSE TRUE

\* Statement.is_valid_at
Statement_is_valid_at(stmt, timestamp) ==
    IF stmt.temporal_event # NoEvent
    THEN TemporalEvent_is_valid_at(stmt.temporal_event[1], timestamp)
    ELSE TRUE

---------------------------------------------------------------------------
(* Python dict, insertion ordered: a sequence of [key, value] *)

EmptyDict == <<>>
DictHas(d, k) == \E i \in 1..Len(d) : d[i].key = k
DictGet(d, k) == d[CHOOSE i \in 1..Len(d) : d[i].key = k].value
DictSet(d, k, v) ==
    IF DictHas(d, k)
    THEN [i \in 1..Len(d) |-> IF d[i].key = k THEN [key |-> k, value |-> v] ELSE d[i]]
    ELSE Append(d, [key |-> k, value |-> v])
DictKeys(d) == [i \in 1..Len(d) |-> d[i].key]
DictValues(d) == [i \in 1..Len(d) |-> d[i].value]

InList(x, l) == \E i \in 1..Len(l) : l[i] = x
Range(l) == {l[i] : i \in 1..Len(l)}

---------------------------------------------------------------------------
(* KnowledgeGraph: src/models.py *)

EmptyKG == [statements |-> EmptyDict, entities |-> EmptyDict]

\* indexing that appends the entity name where the statement id is meant
IndexEntityAppendName(entities, name, id) ==
    LET e1 == IF ~DictHas(entities, name) THEN DictSet(entities, name, <<>>)
              ELSE entities
    IN  IF ~InList(name, DictGet(e1, name))
        THEN DictSet(e1, name, Append(DictGet(e1, name), name))
        ELSE e1

\* indexing without the "not in" test
IndexEntityAlways(entities, name, id) ==
    LET e1 == IF ~DictHas(entities, name) THEN DictSet(entities, name, <<>>)
              ELSE entities
    IN  DictSet(e1, name, Append(DictGet(e1, name), id))

\* indexing that starts the bucket afresh without the "not in self.entities" test
IndexEntityReset(entities, name, id) == DictSet(entities, name, <<id>>)

\* indexing that moves an id that is already in the bucket to its end
IndexEntityMoveToEnd(entities, name, id) ==
    LET e1 == IF ~DictHas(entities, name) THEN DictSet(entities, name, <<>>)
              ELSE entities
    IN  DictSet(e1, name, Append(SelectSeq(DictGet(e1, name), LAMBDA x : x # id), id))

\* lines 84-87 (and 89-92): create the bucket if missing, append the id if absent
IndexEntity(entities, name, id) ==
    LET e1 == IF ~DictHas(entities, name) THEN DictSet(entities, name, <<>>)
              ELSE entities
    IN  IF ~InList(id, DictGet(e1, name))
        THEN DictSet(e1, name, Append(DictGet(e1, name), id))
        ELSE e1

\* the loop of add_statement indexing the subjects only
RECURSIVE IndexTripletsSubjectOnly(_, _, _, _)
IndexTripletsSubjectOnly(entities, triplets, i, id) ==
    IF i > Len(triplets) THEN entities
    ELSE IndexTripletsSubjectOnly(
            IndexEntity(entities, triplets[i].subject, id), triplets, i + 1, id)

\* the loop of add_statement over statement.triplets, from triplet i on
RECURSIVE IndexTriplets(_, _, _, _)
IndexTriplets(entities, triplets, i, id) ==
    IF i > Len(triplets) THEN entities
    ELSE IndexTriplets(
            IndexEntity(IndexEntity(entities, triplets[i].subject, id),
                        triplets[i].object, id),
            triplets, i + 1, id)

\* KnowledgeGraph.add_statement, for the Statement object r with fields stmt
add_statement(g, r, stmt) ==
    [statements |-> DictSet(g.statements, stmt.id, r),
     entities |-> IndexTriplets(g.entities, stmt.triplets, 1, stmt.id)]

\* invalidate_statement over Statements that share one invalidated_by list
invalidate_statement_shared_list(h, g, statement_id, invalidated_by_id) ==
    IF DictHas(g.statements, statement_id)
    THEN [r \in 1..Len(h) |->
            [h[r] EXCEPT !.invalidated_by = Append(@, invalidated_by_id)]]
    ELSE h

\* KnowledgeGraph.invalidate_statement: the heap after the call
invalidate_statement(h, g, statement_id, invalidated_by_id) ==
    IF DictHas(g.statements, statement_id)
    THEN LET r == DictGet(g.statements, statement_id)
         IN  [h EXCEPT ![r].invalidated_by = Append(@, invalidated_by_id)]
    ELSE h

\* dict.get(entity, [])
BucketOf(g, entity) ==
    IF DictHas(g.entities, entity) THEN DictGet(g.entities, entity) ELSE <<>>

\* the graph after self.entities.setdefault(entity, []): an entity without a
\* bucket gets an empty one
after_entities_setdefault(g, entity) ==
    IF DictHas(g.entities, entity) THEN g
    ELSE [g EXCEPT !.entities = Append(@, [key |-> entity, value |-> <<>>])]

\* the graph after self.entities.get(entity, []): dict.get stores nothing
after_entities_get(g, entity) == g

\* KnowledgeGraph.get_statements_for_entity: the references, in bucket order
RECURSIVE ResolveIds(_, _, _)
ResolveIds(g, ids, i) ==
    IF i > Len(ids) THEN <<>>
    ELSE IF DictHas(g.statements, ids[i])
         THEN <<DictGet(g.statements, ids[i])>> \o ResolveIds(g, ids, i + 1)
         ELSE ResolveIds(g, ids, i + 1)

get_statements_for_entity(g, entity) == ResolveIds(g, BucketOf(g, entity), 1)

\* KnowledgeGraph.get_valid_statements_at: the references, in dict order
RECURSIVE FilterValidAt(_, _, _, _)
FilterValidAt(h, refs, i, timestamp) ==
    IF i > Len(refs) THEN <<>>
    ELSE IF Statement_is_valid_at(h[refs[i]], timestamp)
         THEN <<refs[i]>> \o FilterValidAt(h, refs, i + 1, timestamp)
         ELSE FilterValidAt(h, refs, i + 1, timestamp)

get_valid_statements_at(h, g, timestamp) ==
    FilterValidAt(h, DictValues(g.statements), 1, timestamp)

\* Triplet.__str__
Triplet_str(t) ==
    "\"" \o t.subject \o "\" - \"" \o t.predicate \o "\" - \"" \o t.object \o "\""

\* datetime.min, before every instant
DatetimeMin == -2

\* the dict appended for a statement with a TemporalEvent (lines 115-122)
event_data(stmt) ==
    [statement_id |-> stmt.id,
     text |-> stmt.text,
     temporal_class |-> stmt.temporal_class,
     fact_type |-> stmt.fact_type,
     triplets |-> [i \in 1..Len(stmt.triplets) |-> Triplet_str(stmt.triplets[i])],
     temporal_event |-> stmt.temporal_event[1]]

\* the loop of get_timeline_for_entity (lines 113-123) over statements[i..]
RECURSIVE TimelineOf(_, _, _)
TimelineOf(h, refs, i) ==
    IF i > Len(refs) THEN <<>>
    ELSE IF h[refs[i]].temporal_event # NoEvent
         THEN <<event_data(h[refs[i]])>> \o TimelineOf(h, refs, i + 1)
         ELSE TimelineOf(h, refs, i + 1)

\* a sort key that looks at t_valid before t_created
SortKeyValidFirst(x) ==
    IF IsSet(x.temporal_event.t_valid) THEN x.temporal_event.t_valid
    ELSE IF IsSet(x.temporal_event.t_created) THEN x.temporal_event.t_created
    ELSE DatetimeMin

\* the key of timeline.sort (lines 126-128): t_created or t_valid or datetime.min
SortKey(x) ==
    IF IsSet(x.temporal_event.t_created) THEN x.temporal_event.t_created
    ELSE IF IsSet(x.temporal_event.t_valid) THEN x.temporal_event.t_valid
    ELSE DatetimeMin

\* x put into the sorted list after every entry whose key is not greater
RECURSIVE InsertByKey(_, _)
InsertByKey(sorted, x) ==
    IF sorted = <<>> THEN <<x>>
    ELSE IF SortKey(Head(sorted)) <= SortKey(x)
         THEN <<Head(sorted)>> \o InsertByKey(Tail(sorted), x)
         ELSE <<x>> \o sorted

\* list.sort(key=...): ascending and stable, the entries l[i..] put into sorted
RECURSIVE ListSort(_, _, _)
ListSort(sorted, l, i) ==
    IF i > Len(l) THEN sorted
    ELSE ListSort(InsertByKey(sorted, l[i]), l, i + 1)

\* a timeline of every stored statement, whatever the entity
get_timeline_of_all(h, g, entity) ==
    ListSort(<<>>, TimelineOf(h, DictValues(g.statements), 1), 1)

\* KnowledgeGraph.get_timeline_for_entity
get_timeline_for_entity(h, g, entity) ==
    ListSort(<<>>, TimelineOf(h, get_statements_for_entity(g, entity), 1), 1)

---------------------------------------------------------------------------
(* TemporalAgent: src/temporal_agent.py *)

\* the inner loop of _statements_conflict: t1 against stmt2.triplets[j..]
RECURSIVE ConflictInner(_, _, _, _)
ConflictInner(stmt1, stmt2, t1, j) ==
    IF j > Len(stmt2.triplets) THEN FALSE
    ELSE LET t2 == stmt2.triplets[j] IN
         IF /\ t1.subject = t2.subject
            /\ t1.predicate = t2.predicate
            /\ t1.object # t2.object
            /\ stmt1.temporal_event # NoEvent
            /\ stmt2.temporal_event # NoEvent
            /\ IsSet(stmt1.temporal_event[1].t_created)
            /\ IsSet(stmt2.temporal_event[1].t_created)
            /\ stmt1.temporal_event[1].t_created > stmt2.temporal_event[1].t_created
         THEN TRUE
         ELSE ConflictInner(stmt1, stmt2, t1, j + 1)

\* the outer loop of _statements_conflict: stmt1.triplets[i..]
RECURSIVE ConflictOuter(_, _, _)
ConflictOuter(stmt1, stmt2, i) ==
    IF i > Len(stmt1.triplets) THEN FALSE
    ELSE IF ConflictInner(stmt1, stmt2, stmt1.triplets[i], 1) THEN TRUE
         ELSE ConflictOuter(stmt1, stmt2, i + 1)

\* _statements_conflict without the comparison of the predicates
_statements_conflict_any_predicate(stmt1, stmt2) ==
    /\ \E i \in 1..Len(stmt1.triplets), j \in 1..Len(stmt2.triplets) :
          /\ stmt1.triplets[i].subject = stmt2.triplets[j].subject
          /\ stmt1.triplets[i].object # stmt2.triplets[j].object
    /\ stmt1.temporal_event # NoEvent
    /\ stmt2.temporal_event # NoEvent
    /\ IsSet(stmt1.temporal_event[1].t_created)
    /\ IsSet(stmt2.temporal_event[1].t_created)
    /\ stmt1.temporal_event[1].t_created > stmt2.temporal_event[1].t_created

\* _statements_conflict comparing t_created with >= for >
_statements_conflict_not_earlier(stmt1, stmt2) ==
    /\ \E i \in 1..Len(stmt1.triplets), j \in 1..Len(stmt2.triplets) :
          /\ stmt1.triplets[i].subject = stmt2.triplets[j].subject
          /\ stmt1.triplets[i].predicate = stmt2.triplets[j].predicate
          /\ stmt1.triplets[i].object # stmt2.triplets[j].object
    /\ stmt1.temporal_event # NoEvent
    /\ stmt2.temporal_event # NoEvent
    /\ IsSet(stmt1.temporal_event[1].t_created)
    /\ IsSet(stmt2.temporal_event[1].t_created)
    /\ stmt1.temporal_event[1].t_created >= stmt2.temporal_event[1].t_created

\* TemporalAgent._statements_conflict
_statements_conflict(stmt1, stmt2) == ConflictOuter(stmt1, stmt2, 1)

\* TemporalAgent.check_invalidation over existing[i..]: the ids, in list order
RECURSIVE check_invalidation_from(_, _, _)
check_invalidation_from(new_statement, existing, i) ==
    IF i > Len(existing) THEN <<>>
    ELSE IF _statements_conflict(new_statement, existing[i])
         THEN <<existing[i].id>> \o check_invalidation_from(new_statement, existing, i + 1)
         ELSE check_invalidation_from(new_statement, existing, i + 1)

\* check_invalidation calling _statements_conflict(existing, new)
RECURSIVE check_invalidation_reversed(_, _)
check_invalidation_reversed(new_statement, existing) ==
    IF existing = <<>> THEN <<>>
    ELSE (IF _statements_conflict(Head(existing), new_statement)
          THEN <<Head(existing).id>> ELSE <<>>)
         \o check_invalidation_reversed(new_statement, Tail(existing))

check_invalidation(new_statement, existing) ==
    check_invalidation_from(new_statement, existing, 1)

-------------------------------------------------------------------------------------------------------------------------------------------------
(* TemporalQueryEngine: src/temporal_agent.py *)

\* TemporalQuery: entity and question are "" when unset (None and "" are
\* both false), timestamp is None when unset, temporal_range is <<>> when
\* unset (None and () are both false) or <<start_time, end_time>>
TemporalQuery(entity, timestamp, temporal_range, question) ==
    [entity |-> entity, predicate |-> "", timestamp |-> timestamp,
     temporal_range |-> temporal_range, question |-> question]

\* the entity branch that does not filter by the timestamp
EntityStatementsUnfiltered(h, g, query) == get_statements_for_entity(g, query.entity)

\* lines 273-277: the statements of the entity, valid at the timestamp if given
EntityStatements(h, g, query) ==
    LET statements == get_statements_for_entity(g, query.entity)
    IN  IF IsSet(query.timestamp)
        THEN FilterValidAt(h, statements, 1, query.timestamp)
        ELSE statements

\* the overlap test with the end compared strictly
OverlapsRangeStrictEnd(stmt, start_time, end_time) ==
    IF stmt.temporal_event # NoEvent
    THEN LET te == stmt.temporal_event[1]
             stmt_start == IF IsSet(te.t_valid) THEN te.t_valid ELSE te.t_created
             stmt_end == IF IsSet(te.t_invalid) THEN te.t_invalid ELSE te.t_expired
         IN  IF IsSet(stmt_start) /\ stmt_start <= end_time
             THEN (IF ~IsSet(stmt_end) \/ stmt_end > start_time THEN TRUE ELSE FALSE)
             ELSE FALSE
    ELSE FALSE

\* lines 289-296: whether the range loop appends stmt
OverlapsRange(stmt, start_time, end_time) ==
    IF stmt.temporal_event # NoEvent
    THEN LET te == stmt.temporal_event[1]
             stmt_start == IF IsSet(te.t_valid) THEN te.t_valid ELSE te.t_created
             stmt_end == IF IsSet(te.t_invalid) THEN te.t_invalid ELSE te.t_expired
         IN  IF IsSet(stmt_start) /\ stmt_start <= end_time
             THEN (IF ~IsSet(stmt_end) \/ stmt_end >= start_time THEN TRUE ELSE FALSE)
             ELSE FALSE
    ELSE FALSE

\* lines 285-296: the loop over self.kg.statements.values(), from refs[i] on
RECURSIVE RangeStatements(_, _, _, _, _)
RangeStatements(h, refs, i, start_time, end_time) ==
    IF i > Len(refs) THEN <<>>
    ELSE IF OverlapsRange(h[refs[i]], start_time, end_time)
         THEN <<refs[i]>> \o RangeStatements(h, refs, i + 1, start_time, end_time)
         ELSE RangeStatements(h, refs, i + 1, start_time, end_time)

\* relevant_statements[:10]
ContextLimit == 10
ContextStatements(relevant_statements) ==
    SubSeq(relevant_statements, 1,
           IF Len(relevant_statements) < ContextLimit
           THEN Len(relevant_statements) ELSE ContextLimit)

\* what the chat completion can do: return a text, <<text>>, or raise, <<>>
Replies == {<<"ok">>, <<" ok ">>, <<>>}

\* str.strip on the texts of Replies
strip(text) == IF text = " ok " THEN "ok" ELSE text

NoRelevantInformation == "No relevant information found in the knowledge graph."
ErrorGeneratingAnswer == "Error generating answer from the knowledge graph."

\* the statements _answer_question puts into the prompt of the chat
\* completion: <<>> when it makes no call, else <<the statements>>
_answer_question_context(relevant_statements) ==
    IF relevant_statements = <<>> THEN <<>>
    ELSE <<ContextStatements(relevant_statements)>>

\* _answer_question with one sentence for every case without an answer
_answer_question_one_sentinel(relevant_statements, reply) ==
    IF relevant_statements = <<>> \/ reply = <<>> THEN NoRelevantInformation
    ELSE strip(reply[1])

\* TemporalQueryEngine._answer_question, reply what the chat completion does
_answer_question(relevant_statements, reply) ==
    IF relevant_statements = <<>> THEN NoRelevantInformation
    ELSE IF reply # <<>> THEN strip(reply[1])
    ELSE ErrorGeneratingAnswer

\* TemporalQueryEngine.query: the QueryResult (statements as references;
\* answer <<>> when None), with the context handed to the chat completion
query(h, g, query_, reply) ==
    LET statements ==
            IF query_.entity # "" THEN EntityStatements(h, g, query_)
            ELSE IF query_.temporal_range # <<>>
                 THEN RangeStatements(h, DictValues(g.statements), 1,
                                      query_.temporal_range[1], query_.temporal_range[2])
                 ELSE <<>>
        timeline ==
            IF query_.entity # "" THEN get_timeline_for_entity(h, g, query_.entity)
            ELSE <<>>
    IN  [statements |-> statements,
         timeline |-> timeline,
         answer |-> IF query_.question # ""
                    THEN <<_answer_question(statements, reply)>> ELSE <<>>,
         confidence |-> "0.8",
         context |-> IF query_.question # ""
                     THEN _answer_question_context(statements) ELSE <<>>]

---------------------------------------------------------------------------
(* Statement ids: src/temporal_agent.py *)

HashModulus == 1000000
HashValues == {0, 1}            \* values of hash(text) that are drawn
Sources == {"", "stmt"}         \* "" stands for a source that is None or empty

IntStr(i) == <<"0", "1", "2", "3", "4", "5", "6", "7", "8", "9">>[i + 1]

\* process_statement, line 164: f"stmt_{hash(text) % 1000000}"
TextStatementId(h) == "stmt_" \o IntStr(h % HashModulus)

\* process_document, line 202, for sentence number i (from 0)
DocStatementId(source, i) ==
    IF source # "" THEN source \o "_" \o IntStr(i) ELSE "stmt_" \o IntStr(i)

\* the ids a direct caller of the store uses
Ids == {TextStatementId(h) : h \in HashValues}

\* the ids a direct caller of invalidate_statement names as the invalidator
InvalidatorIds == {TextStatementId(1)}

---------------------------------------------------------------------------
(* What a caller, or the extraction, hands to the store *)

\* a Statement as process_statement (lines 179-188) or a caller builds it:
\* no triplets and no event; one triplet, created at 1 and valid in [1, 2);
\* two triplets (one with subject = object), created at 2, no validity bounds
NewStatements(id) ==
    { Statement(id, <<>>, NoEvent),
      Statement(id, <<Triplet("A", "p", "B")>>, Some(TemporalEvent(1, None, 1, 2))),
      Statement(id, <<Triplet("A", "p", "C"), Triplet("C", "q", "C")>>,
                Some(TemporalEvent(2, None, None, None))) }

EntityNames == {"A", "B", "C", "D"}

-----
(* KnowledgeGraphManager: src/utils.py *)

\* list(self.kg.statements.values()), the objects' fields
ExistingStatements(h, g) ==
    [i \in 1..Len(g.statements) |-> h[g.statements[i].value]]

\* lines 80-81 (61-62): invalidate every flagged id, in order
RECURSIVE InvalidateAll(_, _, _, _, _)
InvalidateAll(h, g, invalidated_ids, i, by) ==
    IF i > Len(invalidated_ids) THEN h
    ELSE InvalidateAll(invalidate_statement(h, g, invalidated_ids[i], by),
                       g, invalidated_ids, i + 1, by)

\* the workflow with invalidation carried on: what the invalidated statements
\* had invalidated is invalidated by the new statement too
WorkflowAddTransitive(h, g, r) ==
    LET statement == h[r]
        invalidated_ids == check_invalidation(statement, ExistingStatements(h, g))
        h2 == InvalidateAll(h, g, invalidated_ids, 1, statement.id)
        h3 == [i \in 1..Len(h2) |->
                 IF \E k \in 1..Len(invalidated_ids) :
                       InList(invalidated_ids[k], h2[i].invalidated_by)
                 THEN [h2[i] EXCEPT !.invalidated_by = Append(@, statement.id)]
                 ELSE h2[i]]
    IN  [heap |-> h3, kg |-> add_statement(g, r, h3[r])]

\* the workflow that names the invalidating statement by its text
WorkflowAddLinkText(h, g, r) ==
    LET statement == h[r]
        invalidated_ids == check_invalidation(statement, ExistingStatements(h, g))
        h2 == InvalidateAll(h, g, invalidated_ids, 1, statement.text)
    IN  [heap |-> h2, kg |-> add_statement(g, r, h2[r])]

\* lines 75-84 (56-65): check, invalidate, add, for the Statement object r
WorkflowAdd(h, g, r) ==
    LET statement == h[r]
        invalidated_ids == check_invalidation(statement, ExistingStatements(h, g))
        h2 == InvalidateAll(h, g, invalidated_ids, 1, statement.id)
    IN  [heap |-> h2, kg |-> add_statement(g, r, h2[r])]

\* the loop of add_document over statements[i..]
RECURSIVE AddDocumentLoop(_, _, _, _)
AddDocumentLoop(h, g, refs, i) ==
    IF i > Len(refs) THEN [heap |-> h, kg |-> g]
    ELSE LET s == WorkflowAdd(h, g, refs[i])
         IN  AddDocumentLoop(s.heap, s.kg, refs, i + 1)

\* stats[name][key] = stats[name].get(key, 0) + 1
CountKey(d, key) == DictSet(d, key, IF DictHas(d, key) THEN DictGet(d, key) + 1 ELSE 1)

\* the loop of get_statistics over self.kg.statements.values(), from the i-th on
RECURSIVE StatisticsLoop(_, _, _, _)
StatisticsLoop(h, refs, i, stats) ==
    IF i > Len(refs) THEN stats
    ELSE LET statement == h[refs[i]]
         IN  StatisticsLoop(h, refs, i + 1,
               [stats EXCEPT
                   !.temporal_classes = CountKey(@, statement.temporal_class),
                   !.fact_types = CountKey(@, statement.fact_type),
                   !.statements_with_temporal_events =
                       IF statement.temporal_event # NoEvent THEN @ + 1 ELSE @,
                   !.invalidated_statements =
                       IF statement.invalidated_by # <<>> THEN @ + 1 ELSE @])

\* KnowledgeGraphManager.get_statistics
get_statistics(h, g) ==
    StatisticsLoop(h, DictValues(g.statements), 1,
                   [total_statements |-> Len(g.statements),
                    total_entities |-> Len(g.entities),
                    temporal_classes |-> EmptyDict,
                    fact_types |-> EmptyDict,
                    statements_with_temporal_events |-> 0,
                    invalidated_statements |-> 0])

---------------------------------------------------------------------------
(* Persistence: src/utils.py.  JSON null is <<>>, a JSON string s is <<s>> *)
(* where the value is optional                                             *)

\* str(datetime), what json.dump(default=str) writes for a datetime: the
\* instant t is the first of January of the year 2000 + t
datetime_str(t) == "200" \o IntStr(t) \o "-01-01 00:00:00"

\* datetime.fromisoformat on the strings datetime_str writes
datetime_fromisoformat(s) == CHOOSE t \in 0..9 : datetime_str(t) = s

\* an Optional[datetime] as JSON
JsonInstant(t) == IF IsSet(t) THEN <<datetime_str(t)>> ELSE <<>>

\* stmt.dict() as json.dump writes it (line 145, 151)
JsonStatement(stmt) ==
    [id |-> stmt.id, text |-> stmt.text, temporal_class |-> stmt.temporal_class,
     fact_type |-> stmt.fact_type, triplets |-> stmt.triplets,
     temporal_event |->
        IF stmt.temporal_event = NoEvent THEN <<>>
        ELSE LET te == stmt.temporal_event[1]
             IN  <<[t_created |-> JsonInstant(te.t_created),
                    t_expired |-> JsonInstant(te.t_expired),
                    t_valid |-> JsonInstant(te.t_valid),
                    t_invalid |-> JsonInstant(te.t_invalid)]>>,
     invalidated_by |-> stmt.invalidated_by]

\* KnowledgeGraphManager.save_to_file: the data written (saved_at, the time
\* of the clock, is never read back and is left out)
save_to_file(h, g) ==
    [statements |-> [i \in 1..Len(g.statements) |->
                        [key |-> g.statements[i].key,
                         value |-> JsonStatement(h[g.statements[i].value])]],
     entities |-> g.entities]

\* lines 166-168: te[key] = datetime.fromisoformat(te[key]) if te.get(key)
LoadInstant(j) == IF j # <<>> THEN datetime_fromisoformat(j[1]) ELSE None

\* lines 163-170: Statement(**stmt_data) after the conversion of the instants
LoadStatement(stmt_data) ==
    [id |-> stmt_data.id, text |-> stmt_data.text,
     temporal_class |-> stmt_data.temporal_class,
     fact_type |-> stmt_data.fact_type, triplets |-> stmt_data.triplets,
     temporal_event |->
        IF stmt_data.temporal_event = <<>> THEN NoEvent
        ELSE LET te == stmt_data.temporal_event[1]
             IN  Some(TemporalEvent(LoadInstant(te.t_created), LoadInstant(te.t_expired),
                                    LoadInstant(te.t_valid), LoadInstant(te.t_invalid))),
     invalidated_by |-> stmt_data.invalidated_by]

\* Statement(**stmt_data) raises a ValidationError when a field without a
\* default is missing
RequiredFields == {"id", "text", "temporal_class"}
HasRequiredFields(stmt_data) == RequiredFields \subseteq DOMAIN stmt_data

\* the loop of load_from_file (lines 162-171) over data["statements"], from
\* record i on: h and g are the Statement objects and the graph built so
\* far, raised whether Statement(**stmt_data) has raised
RECURSIVE LoadLoop(_, _, _, _)
LoadLoop(h, g, records, i) ==
    IF i > Len(records) THEN [heap |-> h, kg |-> g, raised |-> FALSE]
    ELSE IF ~HasRequiredFields(records[i].value)
         THEN [heap |-> h, kg |-> g, raised |-> TRUE]
         ELSE LET statement == LoadStatement(records[i].value)
              IN  LoadLoop(Append(h, statement),
                           add_statement(g, Len(h) + 1, statement), records, i + 1)

\* load_from_file that takes the entities section of the file as the index
load_from_file_trusting_entities(data) ==
    LET s == LoadLoop(<<>>, EmptyKG, data.statements, 1)
    IN  [heap |-> s.heap, kg |-> [s.kg EXCEPT !.entities = data.entities],
         raised |-> s.raised]

\* KnowledgeGraphManager.load_from_file: the graph that self.kg is set to, the
\* Statement objects created for it, and whether the call has raised
load_from_file(data) == LoadLoop(<<>>, EmptyKG, data.statements, 1)

\* the entities sections an edit of the file puts in place of the saved one
EditedEntities ==
    { EmptyDict, <<[key |-> "D", value |-> <<TextStatementId(1)>>]>> }

-------------------------------------------------------------------------------------------------------------------------------------------------
(* The state machine *)

Init ==
    /\ heap = <<>>
    /\ kg = EmptyKG
    /\ last = "init"
    /\ args = <<>>
    /\ ret = <<>>
    /\ file = <<>>
    /\ engine = <<>>

\* kg.add_statement(stmt) with a Statement the caller has just built
AddStatementNewStep(stmt) ==
    /\ Len(heap) < MaxObjs
    /\ heap' = Append(heap, stmt)
    /\ kg' = add_statement(kg, Len(heap) + 1, stmt)
    /\ last' = "add_statement"
    /\ UNCHANGED <<args, ret, file, engine>>

AddStatementNew ==
    \E id \in Ids : \E stmt \in NewStatements(id) : AddStatementNewStep(stmt)

\* kg.add_statement(heap[r]) a second time, with the Statement object r that the
\* store holds
AddStatementAgainStep(r) ==
    /\ kg' = add_statement(kg, r, heap[r])
    /\ last' = "add_statement"
    /\ UNCHANGED <<heap, args, ret, file, engine>>

AddStatementAgain == \E r \in Range(DictValues(kg.statements)) : AddStatementAgainStep(r)

\* the invalidation links held by the objects h[i..]
RECURSIVE TotalInv(_, _)
TotalInv(h, i) ==
    IF i > Len(h) THEN 0 ELSE Len(h[i].invalidated_by) + TotalInv(h, i + 1)

\* kg.invalidate_statement(statement_id, invalidated_by_id)
InvalidateStep(statement_id, invalidated_by_id) ==
    /\ TotalInv(heap, 1) < MaxInv
    /\ heap' = invalidate_statement(heap, kg, statement_id, invalidated_by_id)
    /\ last' = "invalidate_statement"
    /\ UNCHANGED <<kg, args, ret, file, engine>>

InvalidateStatement ==
    \E statement_id \in Ids, invalidated_by_id \in InvalidatorIds :
        InvalidateStep(statement_id, invalidated_by_id)

\* manager.add_statement_text(text), stmt what process_statement returns
AddStatementTextStep(stmt) ==
    /\ Len(heap) < MaxObjs
    /\ LET s == WorkflowAdd(Append(heap, stmt), kg, Len(heap) + 1)
       IN  /\ heap' = s.heap
           /\ kg' = s.kg
    /\ last' = "add_statement_text"
    /\ UNCHANGED <<args, ret, file, engine>>

AddStatementText ==
    \E h \in HashValues : \E stmt \in NewStatements(TextStatementId(h)) :
        AddStatementTextStep(stmt)

\* the documents process_document can return for n sentences of a source
DocStatements(source, n) ==
    {[i \in 1..n |-> [body[i] EXCEPT !.id = DocStatementId(source, i - 1)]] :
        body \in [1..n -> NewStatements("")]}

\* manager.add_document(text, source), d what process_document returns
AddDocumentStep(d) ==
    /\ Len(heap) + Len(d) <= MaxObjs
    /\ LET refs == [i \in 1..Len(d) |-> Len(heap) + i]
           s == AddDocumentLoop(heap \o d, kg, refs, 1)
       IN  /\ heap' = s.heap
           /\ kg' = s.kg
    /\ last' = "add_document"
    /\ UNCHANGED <<args, ret, file, engine>>

AddDocument ==
    \E source \in Sources, n \in 0..MaxSentences :
        \E d \in DocStatements(source, n) : AddDocumentStep(d)

Next ==
    \/ AddStatementNew
    \/ AddStatementAgain
    \/ InvalidateStatement
    \/ AddStatementText
    \/ AddDocument

Spec == Init /\ [][Next]_vars

---------------------------------------------------------------------------
(* Saving and loading a store built by add_statement and invalidate_statement *)

\* the statements a caller adds to the store that is saved: two under one
\* id, with no triplet and no event and with one triplet and a validity
\* window, and one with two triplets under another id
PersistStatements ==
    { Statement(TextStatementId(0), <<>>, NoEvent),
      Statement(TextStatementId(0), <<Triplet("A", "p", "B")>>,
                Some(TemporalEvent(1, None, 1, 2))),
      Statement(TextStatementId(1), <<Triplet("A", "p", "C"), Triplet("C", "q", "C")>>,
                Some(TemporalEvent(2, None, None, None))) }

\* kg.add_statement(stmt)
AddPersistStatement == \E stmt \in PersistStatements : AddStatementNewStep(stmt)

\* manager.save_to_file(filepath)
SaveToFile ==
    /\ file' = <<save_to_file(heap, kg)>>
    /\ last' = "save_to_file"
    /\ UNCHANGED <<heap, kg, args, ret, engine>>

\* the file is edited on disk: its entities section is replaced
EditFile ==
    /\ file # <<>>
    /\ \E entities \in EditedEntities : file' = <<[file[1] EXCEPT !.entities = entities]>>
    /\ last' = "edit_file"
    /\ UNCHANGED <<heap, kg, args, ret, engine>>

\* manager.load_from_file(filepath)
\* when it returns, the query engine is made anew on the loaded graph and the
\* objects of the graphs held before are dropped; when it raises, self.kg is
\* the graph filled so far and the query engine keeps the graph it had
LoadFromFile ==
    /\ file # <<>>
    /\ LET s == load_from_file(file[1])
       IN  IF ~s.raised
           THEN /\ heap' = s.heap
                /\ kg' = s.kg
                /\ engine' = <<>>
                /\ last' = "load_from_file"
           ELSE /\ Len(heap) + Len(s.heap) <= MaxObjs
                /\ heap' = heap \o s.heap
                /\ kg' = [s.kg EXCEPT !.statements =
                             [i \in 1..Len(@) |->
                                 [key |-> @[i].key, value |-> @[i].value + Len(heap)]]]
                /\ engine' = IF engine = <<>> THEN <<kg>> ELSE engine
                /\ last' = "load_from_file raised"
    /\ UNCHANGED <<args, ret, file>>

NextPersist ==
    \/ AddPersistStatement
    \/ InvalidateStatement
    \/ SaveToFile
    \/ EditFile
    \/ LoadFromFile

SpecPersist == Init /\ [][NextPersist]_vars

---------------------------------------------------------------------------
(* Loading a file that has a record without a required field, and what the *)
(* manager's query engine reads afterwards                                 *)

\* the graph self.query_engine.kg
EngineKG == IF engine = <<>> THEN kg ELSE engine[1]

\* the record stmt_data without the field f
WithoutField(stmt_data, f) == [g \in DOMAIN stmt_data \ {f} |-> stmt_data[g]]

\* manager.add_statement_text(text) for the texts of PersistStatements, while
\* the objects hold fewer than MaxInv invalidation links
AddLoadStatement ==
    /\ TotalInv(heap, 1) < MaxInv
    /\ \E stmt \in PersistStatements : AddStatementTextStep(stmt)

\* manager.save_to_file(filepath), once
SaveToNewFile == file = <<>> /\ SaveToFile

\* the file is edited on disk: one record of the saved file loses a required
\* field
DamageFile ==
    /\ file # <<>>
    /\ \A i \in 1..Len(file[1].statements) : HasRequiredFields(file[1].statements[i].value)
    /\ \E i \in 1..Len(file[1].statements), f \in RequiredFields :
          /\ f \in DOMAIN file[1].statements[i].value
          /\ file' = <<[file[1] EXCEPT !.statements[i].value = WithoutField(@, f)]>>
    /\ last' = "damage_file"
    /\ UNCHANGED <<heap, kg, args, ret, engine>>

\* manager.query_entity(entity): self.query_engine.query(TemporalQuery(entity=entity))
QueryEntity(entity) ==
    /\ ret = <<>>
    /\ args' = <<"query_entity", entity>>
    /\ ret' = <<query(heap, EngineKG, TemporalQuery(entity, None, <<>>, ""), <<>>)>>
    /\ last' = "query_entity"
    /\ UNCHANGED <<heap, kg, file, engine>>

NextLoad ==
    \/ AddLoadStatement
    \/ SaveToNewFile
    \/ DamageFile
    \/ LoadFromFile
    \/ \E entity \in {"A", "D"} : QueryEntity(entity)

SpecLoad == Init /\ [][NextLoad]_vars

---------------------------------------------------------------------------
(* The store under the manager's two adding operations alone *)

\* the Statements process_statement returns for three texts about A: A p B
\* created at 1, A p C created at 2 and A p B created at 3
WorkflowStatements(id) ==
    { Statement(id, <<Triplet("A", "p", "B")>>, Some(TemporalEvent(1, None, None, None))),
      Statement(id, <<Triplet("A", "p", "C")>>, Some(TemporalEvent(2, None, None, None))),
      Statement(id, <<Triplet("A", "p", "B")>>, Some(TemporalEvent(3, None, None, None))) }

\* manager.add_statement_text(text)
AddWorkflowText ==
    \E h \in HashValues : \E stmt \in WorkflowStatements(TextStatementId(h)) :
        AddStatementTextStep(stmt)

WorkflowSources == {"", "doc"}

\* manager.add_document(text, source) for a text of one sentence or more
AddWorkflowDocument ==
    \E source \in WorkflowSources, n \in 1..MaxSentences :
        \E body \in [1..n -> WorkflowStatements("")] :
            AddDocumentStep([i \in 1..n |-> [body[i] EXCEPT !.id = DocStatementId(source, i - 1)]])

NextWorkflow ==
    \/ AddWorkflowText
    \/ AddWorkflowDocument

SpecWorkflow == Init /\ [][NextWorkflow]_vars

---------------------------------------------------------------------------
(* The store under direct add_statement calls alone *)

NextAdd ==
    \/ AddStatementNew
    \/ AddStatementAgain

SpecAdd == Init /\ [][NextAdd]_vars

---------------------------------------------------------------------------
(* Statement.is_valid_at as a pure function of (statement, instant) *)

\* every TemporalEvent over the instants, t_created unset or 1
AllEvents ==
    {TemporalEvent(c, e, v, i) : c \in {None, 1}, e \in OptInstants,
                                 v \in OptInstants, i \in OptInstants}

ValidArgs ==
    {<<"is_valid_at", Statement("stmt_0", <<>>, te), t>> :
        te \in {NoEvent} \cup {Some(ev) : ev \in AllEvents}, t \in Instants}

InitValid ==
    /\ heap = <<>>
    /\ kg = EmptyKG
    /\ last = "init"
    /\ args \in ValidArgs
    /\ ret = <<>>
    /\ file = <<>>
    /\ engine = <<>>

CallIsValidAt ==
    /\ args[1] = "is_valid_at"
    /\ ret = <<>>
    /\ ret' = <<Statement_is_valid_at(args[2], args[3])>>
    /\ last' = "is_valid_at"
    /\ UNCHANGED <<heap, kg, args, file, engine>>

SpecValid == InitValid /\ [][CallIsValidAt]_vars

---------------------------------------------------------------------------
(* _statements_conflict and check_invalidation as pure functions *)

ConflictTriplets ==
    { Triplet("A", "p", "B"), Triplet("A", "p", "C"),
      Triplet("A", "q", "B"), Triplet("B", "p", "B") }

TripletSeqs == UNION {[1..k -> ConflictTriplets] : k \in 0..MaxTriplets}

\* no event, or an event whose t_created is unset or one of 1..MaxT-1
CreatedEvents ==
    {NoEvent} \cup {Some(TemporalEvent(c, None, None, None)) :
                        c \in {None} \cup 1..(MaxT - 1)}

ConflictStatements(id) ==
    {Statement(id, tl, te) : tl \in TripletSeqs, te \in CreatedEvents}

\* the statements check_invalidation is tried on: at most one triplet
ListedStatements(id) ==
    {Statement(id, tl, te) :
        tl \in {<<>>, <<Triplet("A", "p", "B")>>, <<Triplet("A", "p", "C")>>},
        te \in {NoEvent, Some(TemporalEvent(1, None, None, None)),
                Some(TemporalEvent(2, None, None, None))}}

\* lists of statements with the ids e_1, e_2, ... as the values of a dict have
ExistingLists ==
    UNION { {[i \in 1..k |-> [body[i] EXCEPT !.id = "e_" \o IntStr(i)]] :
                body \in [1..k -> ListedStatements("")]} : k \in 0..MaxExisting }

\* a call of _statements_conflict(s1, s2) or of check_invalidation(n, l)
InitConflict ==
    /\ heap = <<>>
    /\ kg = EmptyKG
    /\ last = "init"
    /\ \/ args \in {<<"_statements_conflict", s1, s2>> :
                      s1 \in ConflictStatements("new"), s2 \in ConflictStatements("old")}
       \/ args \in {<<"check_invalidation", n, l>> :
                      n \in ListedStatements("new"), l \in ExistingLists}
    /\ ret = <<>>
    /\ file = <<>>
    /\ engine = <<>>

CallStatementsConflict ==
    /\ args[1] = "_statements_conflict"
    /\ ret = <<>>
    /\ ret' = <<_statements_conflict(args[2], args[3])>>
    /\ last' = "_statements_conflict"
    /\ UNCHANGED <<heap, kg, args, file, engine>>

CallCheckInvalidation ==
    /\ args[1] = "check_invalidation"
    /\ ret = <<>>
    /\ ret' = <<check_invalidation(args[2], args[3])>>
    /\ last' = "check_invalidation"
    /\ UNCHANGED <<heap, kg, args, file, engine>>

NextConflict ==
    \/ CallStatementsConflict
    \/ CallCheckInvalidation

SpecConflict == InitConflict /\ [][NextConflict]_vars

---------------------------------------------------------------------------
(* Reads of a store: a run builds a store and then makes one read *)

\* the statements a caller adds before reading:
\*   stmt_0 "t1": A p B, valid in [1, 2), t_created unset
\*   stmt_1 "t2": A p C, created at 1, expires at 3
\*   stmt_2 "t3": C q A, an event with no field set
\*   stmt_0 "t4": A r B, no event
\*   stmt_1 "t5": B p A, created at 2, valid from 0 with no end
\*   stmt_2 "t6": C q C, created at 3, valid from 3 with no end
QueryStatements ==
    { StatementOf(TextStatementId(0), "t1", "dynamic", "fact",
                  <<Triplet("A", "p", "B")>>, Some(TemporalEvent(None, None, 1, 2))),
      StatementOf(TextStatementId(1), "t2", "static", "opinion",
                  <<Triplet("A", "p", "C")>>, Some(TemporalEvent(1, 3, None, None))),
      StatementOf(TextStatementId(2), "t3", "atemporal", "fact",
                  <<Triplet("C", "q", "A")>>, Some(TemporalEvent(None, None, None, None))),
      StatementOf(TextStatementId(0), "t4", "static", "fact",
                  <<Triplet("A", "r", "B")>>, NoEvent),
      StatementOf(TextStatementId(1), "t5", "dynamic", "prediction",
                  <<Triplet("B", "p", "A")>>, Some(TemporalEvent(2, None, 0, None))),
      StatementOf(TextStatementId(2), "t6", "static", "fact",
                  <<Triplet("C", "q", "C")>>, Some(TemporalEvent(3, None, 3, None))) }

\* the queries that are run: no entity, an indexed one or an unknown one; no
\* timestamp or 2; no range or (1, 2); no question or one
Queries ==
    {TemporalQuery(entity, timestamp, temporal_range, question) :
        entity \in {"", "A", "D"}, timestamp \in {None, 2},
        temporal_range \in {<<>>, <<1, 2>>}, question \in {"", "q"}}

\* kg.add_statement(stmt) before any read
AddQueryStatement ==
    /\ ret = <<>>
    /\ \E stmt \in QueryStatements : AddStatementNewStep(stmt)

\* kg.get_statements_for_entity(entity)
GetStatementsForEntity(entity) ==
    /\ ret = <<>>
    /\ args' = <<"get_statements_for_entity", entity>>
    /\ ret' = <<get_statements_for_entity(kg, entity)>>
    /\ kg' = after_entities_get(kg, entity)
    /\ last' = "get_statements_for_entity"
    /\ UNCHANGED <<heap, file, engine>>

\* kg.get_valid_statements_at(timestamp)
GetValidStatementsAt(timestamp) ==
    /\ ret = <<>>
    /\ args' = <<"get_valid_statements_at", timestamp>>
    /\ ret' = <<get_valid_statements_at(heap, kg, timestamp)>>
    /\ last' = "get_valid_statements_at"
    /\ UNCHANGED <<heap, kg, file, engine>>

\* manager.get_statistics()
GetStatistics ==
    /\ ret = <<>>
    /\ args' = <<"get_statistics">>
    /\ ret' = <<get_statistics(heap, kg)>>
    /\ last' = "get_statistics"
    /\ UNCHANGED <<heap, kg, file, engine>>

\* kg.get_timeline_for_entity(entity)
GetTimelineForEntity(entity) ==
    /\ ret = <<>>
    /\ args' = <<"get_timeline_for_entity", entity>>
    /\ ret' = <<get_timeline_for_entity(heap, kg, entity)>>
    /\ kg' = after_entities_get(kg, entity)
    /\ last' = "get_timeline_for_entity"
    /\ UNCHANGED <<heap, file, engine>>

\* query_engine.query(query_) of an engine that reads self.kg, reply what the
\* chat completion does if called; the entity branch looks the bucket up
Query(query_, reply) ==
    /\ ret = <<>>
    /\ engine = <<>>
    /\ args' = <<"query", query_, reply>>
    /\ ret' = <<query(heap, kg, query_, reply)>>
    /\ kg' = IF query_.entity # "" THEN after_entities_get(kg, query_.entity) ELSE kg
    /\ last' = "query"
    /\ UNCHANGED <<heap, file, engine>>

NextQuery ==
    \/ AddQueryStatement
    \/ \E entity \in EntityNames : GetStatementsForEntity(entity)
    \/ \E entity \in EntityNames : GetTimelineForEntity(entity)
    \/ \E timestamp \in Instants : GetValidStatementsAt(timestamp)
    \/ GetStatistics
    \/ \E query_ \in Queries :
          \E reply \in (IF query_.question = "" THEN {<<>>} ELSE Replies) :
              Query(query_, reply)

SpecQuery == Init /\ [][NextQuery]_vars

---------------------------------------------------------------------------
(* What the specification says of conflicts and validity, stated directly *)

\* the new statement supersedes the existing one
Conflict(new, existing) ==
    /\ \E i \in 1..Len(new.triplets), j \in 1..Len(existing.triplets) :
          /\ new.triplets[i].subject = existing.triplets[j].subject
          /\ new.triplets[i].predicate = existing.triplets[j].predicate
          /\ new.triplets[i].object # existing.triplets[j].object
    /\ new.temporal_event # NoEvent
    /\ existing.temporal_event # NoEvent
    /\ new.temporal_event[1].t_created # None
    /\ existing.temporal_event[1].t_created # None
    /\ new.temporal_event[1].t_created > existing.temporal_event[1].t_created

\* the containment rule for instant t
ValidAt(stmt, t) ==
    \/ stmt.temporal_event = NoEvent
    \/ LET ev == stmt.temporal_event[1] IN
       /\ ev.t_valid = None \/ t >= ev.t_valid
       /\ ev.t_invalid = None \/ t < ev.t_invalid
       /\ ev.t_expired = None \/ t < ev.t_expired

\* the ids of the statements of a list that the new statement supersedes, in order
RECURSIVE ConflictingIds(_, _)
ConflictingIds(new, existing) ==
    IF existing = <<>> THEN <<>>
    ELSE (IF Conflict(new, Head(existing)) THEN <<Head(existing).id>> ELSE <<>>)
         \o ConflictingIds(new, Tail(existing))

---------------------------------------------------------------------------
(* Claims *)

\* C1: _statements_conflict(new, existing) is true exactly when a triplet of
\* new and a triplet of existing have equal subject, equal predicate and
\* different object, both statements have a TemporalEvent with t_created set
\* and new's t_created is strictly later; check_invalidation(new, list)
\* returns exactly the ids of the listed statements for which this holds.
C1_ConflictExact ==
    ret # <<>> =>
        /\ args[1] = "_statements_conflict" => ret[1] = Conflict(args[2], args[3])
        /\ args[1] = "check_invalidation" => ret[1] = ConflictingIds(args[2], args[3])

\* check_invalidation has run on two statements and flagged the second only
C1_Witness ==
    /\ args[1] = "check_invalidation"
    /\ ret # <<>>
    /\ Len(args[3]) = 2
    /\ ret[1] = <<args[3][2].id>>
    /\ args[3][1].triplets # <<>>

\* C3: Statement.is_valid_at(t) is true exactly when the statement has no
\* TemporalEvent, or (t_valid unset or t >= t_valid) and (t_invalid unset or
\* t < t_invalid) and (t_expired unset or t < t_expired); an event with all
\* four fields unset is valid at every instant, t = t_valid is valid and
\* t = t_invalid is not.
C3_IsValidAtExact ==
    (args # <<>> /\ args[1] = "is_valid_at" /\ ret # <<>>) =>
        LET stmt == args[2]
            t == args[3]
        IN  /\ ret[1] = ValidAt(stmt, t)
            /\ stmt.temporal_event = Some(TemporalEvent(None, None, None, None))
                  => ret[1] = TRUE
            /\ (stmt.temporal_event # NoEvent /\ stmt.temporal_event[1].t_invalid = t)
                  => ret[1] = FALSE
            /\ (/\ stmt.temporal_event # NoEvent
                /\ stmt.temporal_event[1].t_valid = t
                /\ stmt.temporal_event[1].t_invalid = None
                /\ stmt.temporal_event[1].t_expired = None) => ret[1] = TRUE

\* is_valid_at has run at the instant a window [t_valid, t_invalid) opens
C3_Witness ==
    /\ args # <<>>
    /\ args[1] = "is_valid_at"
    /\ ret = <<TRUE>>
    /\ args[2].temporal_event # NoEvent
    /\ args[2].temporal_event[1].t_valid = args[3]
    /\ args[2].temporal_event[1].t_invalid = args[3] + 1

---------------------------------------------------------------------------
(* TemporalAgent.process_statement as a pure function of its arguments and *)
(* of what the three chat completions do. A reply is <<>> when the call    *)
(* raised, else <<content>>; for the two JSON replies it is <<>> too when   *)
(* json.loads raised, else <<the parsed value>>                             *)

\* str.strip, str.upper and str.lower on the classification replies
str_strip(text) == IF text = " dynamic " THEN "dynamic" ELSE text
str_upper(text) ==
    CASE text = "dynamic" -> "DYNAMIC"
      [] text = "Static" -> "STATIC"
      [] text = "unsure" -> "UNSURE"
      [] OTHER -> text
str_lower(text) ==
    CASE text = "ATEMPORAL" -> "atemporal"
      [] text = "STATIC" -> "static"
      [] text = "DYNAMIC" -> "dynamic"
      [] text = "UNSURE" -> "unsure"
      [] OTHER -> text

\* classify_temporal_type without the default: the reply, lower-cased, is
\* taken as the class whatever it says
classify_temporal_type_any_word(reply) ==
    IF reply = <<>> THEN "static" ELSE str_lower(str_upper(str_strip(reply[1])))

\* TemporalAgent.classify_temporal_type
classify_temporal_type(reply) ==
    IF reply = <<>> THEN "static"
    ELSE LET classification == str_upper(str_strip(reply[1]))
         IN  IF classification \in {"ATEMPORAL", "STATIC", "DYNAMIC"}
             THEN str_lower(classification)
             ELSE "static"

\* datetime.isoformat of the instant t
isoformat(t) == "200" \o IntStr(t) \o "-01-01T00:00:00"

\* dateutil's parse on a string: it reads both forms of a date and raises on
\* other words
CanParseDate(s) == \E t \in 0..9 : s \in {isoformat(t), datetime_str(t)}
parse_date(s) == CHOOSE t \in 0..9 : s \in {isoformat(t), datetime_str(t)}

EventKeys == {"t_created", "t_expired", "t_valid", "t_invalid"}

\* result.get(key) is truthy: the key is there, not null and not ""
HasDate(result, key) ==
    /\ key \in DOMAIN result
    /\ result[key] # <<>>
    /\ result[key][1] # ""

\* TemporalAgent.extract_temporal_events
extract_temporal_events(reply) ==
    IF reply = <<>> THEN NoEvent
    ELSE LET result == reply[1]
             date(key) == IF HasDate(result, key) THEN parse_date(result[key][1]) ELSE None
         IN  IF \E key \in EventKeys : HasDate(result, key) /\ ~CanParseDate(result[key][1])
             THEN NoEvent
             ELSE Some(TemporalEvent(date("t_created"), date("t_expired"),
                                     date("t_valid"), date("t_invalid")))

\* the loop of extract_triplets over the items of the parsed list, from item
\* i on: a missing key raises and the triplets built so far are dropped
RECURSIVE TripletLoop(_, _, _)
TripletLoop(result, i, triplets) ==
    IF i > Len(result) THEN triplets
    ELSE IF ~({"subject", "predicate", "object"} \subseteq DOMAIN result[i]) THEN <<>>
         ELSE TripletLoop(result, i + 1,
                          Append(triplets, Triplet(result[i].subject, result[i].predicate,
                                                   result[i].object)))

\* TemporalAgent.extract_triplets
extract_triplets(reply) == IF reply = <<>> THEN <<>> ELSE TripletLoop(reply[1], 1, <<>>)

\* TemporalAgent.process_statement(text, statement_id): hash_ is hash(text),
\* statement_id <<>> when it is not given
process_statement(text, hash_, statement_id, classification, triplets, event) ==
    StatementOf(IF statement_id = <<>> THEN TextStatementId(hash_) ELSE statement_id[1],
                text,
                classify_temporal_type(classification),
                "fact",
                extract_triplets(triplets),
                extract_temporal_events(event))

ClassificationReplies == {<<"ATEMPORAL">>, <<"Static">>, <<" dynamic ">>, <<"unsure">>, <<>>}

TripletReplies ==
    LET ab == [subject |-> "A", predicate |-> "p", object |-> "B"]
        ac == [subject |-> "A", predicate |-> "p", object |-> "C"]
        no_object == [subject |-> "A", predicate |-> "p"]
    IN  { <<>>, << <<>> >>, << <<ab>> >>, << <<ab, ac>> >>, << <<ab, no_object>> >> }

EventReplies ==
    { <<>>,
      <<[t_created |-> <<>>, t_expired |-> <<>>, t_valid |-> <<>>, t_invalid |-> <<>>]>>,
      <<[t_created |-> <<isoformat(1)>>, t_expired |-> <<>>,
         t_valid |-> <<isoformat(1)>>, t_invalid |-> <<datetime_str(2)>>]>>,
      <<[t_created |-> <<isoformat(1)>>, t_expired |-> <<>>,
         t_valid |-> <<"soon">>, t_invalid |-> <<>>]>>,
      <<[t_valid |-> <<"">>]>> }

InitProcess ==
    /\ heap = <<>>
    /\ kg = EmptyKG
    /\ last = "init"
    /\ args \in {<<"process_statement", text, hash_, statement_id, c, t, e>> :
                    text \in {"s", "t"}, hash_ \in {1, HashModulus},
                    statement_id \in {<<>>, <<"doc_0">>},
                    c \in ClassificationReplies, t \in TripletReplies, e \in EventReplies}
    /\ ret = <<>>
    /\ file = <<>>
    /\ engine = <<>>

CallProcessStatement ==
    /\ args[1] = "process_statement"
    /\ ret = <<>>
    /\ ret' = <<process_statement(args[2], args[3], args[4], args[5], args[6], args[7])>>
    /\ last' = "process_statement"
    /\ UNCHANGED <<heap, kg, args, file, engine>>

SpecProcess == InitProcess /\ [][CallProcessStatement]_vars

---------------------------------------------------------------------------
(* Views of the store used by the claims *)

StoredRefs(g) == Range(DictValues(g.statements))
StoredIds(g) == Range(DictKeys(g.statements))

\* the (entity, statement id) entries of the index
IndexEntries(g) ==
    UNION { {<<g.entities[i].key, g.entities[i].value[k]>> :
                k \in 1..Len(g.entities[i].value)} : i \in 1..Len(g.entities) }

NoRepeat(l) == \A i, j \in 1..Len(l) : l[i] = l[j] => i = j

MentionsEntity(stmt, name) ==
    \E i \in 1..Len(stmt.triplets) :
        stmt.triplets[i].subject = name \/ stmt.triplets[i].object = name

StoreOps == {"add_statement", "invalidate_statement", "add_statement_text", "add_document"}

\* C2: after the add workflow (add_statement_text, or one iteration of
\* add_document) for a new statement n, n is stored under n.id; every Statement
\* e that was in the store before the call has n.id appended to its
\* invalidated_by exactly when n conflicts with e as e was before the call, and
\* the invalidated_by of every other Statement is as it was.
C2_WorkflowAdd ==
    [][ ( \/ last' = "add_statement_text"
          \/ last' = "add_document" /\ Len(heap') = Len(heap) + 1 ) =>
        LET r == Len(heap')
            n == heap'[r]
        IN  /\ r = Len(heap) + 1
            /\ DictHas(kg'.statements, n.id)
            /\ DictGet(kg'.statements, n.id) = r
            /\ \A e \in 1..Len(heap) :
                 heap'[e].invalidated_by =
                    IF e \in StoredRefs(kg) /\ Conflict(n, heap[e])
                    THEN Append(heap[e].invalidated_by, n.id)
                    ELSE heap[e].invalidated_by ]_vars

\* add_statement_text has added a statement that superseded one stored
\* statement and left another, which it did not conflict with, untouched
C2_Witness ==
    /\ last = "add_statement_text"
    /\ LET r == Len(heap) IN
       /\ \E e \in 1..(r - 1) :
             /\ Conflict(heap[r], heap[e])
             /\ heap[e].invalidated_by = <<heap[r].id>>
       /\ \E e \in 1..(r - 1) :
             /\ ~Conflict(heap[r], heap[e])
             /\ heap[e].triplets # <<>>
             /\ heap[e].invalidated_by = <<>>

\* C4: after any sequence of add_statement, invalidate_statement and
\* workflow adds, every statement id in an entity bucket is a key of the
\* statement map.
C4_IndexedIdsStored ==
    \A entry \in IndexEntries(kg) : DictHas(kg.statements, entry[2])

\* a statement that is indexed under two entities has been invalidated
C4_Witness ==
    /\ last = "invalidate_statement"
    /\ \E r \in StoredRefs(kg) :
          /\ heap[r].invalidated_by # <<>>
          /\ <<"A", heap[r].id>> \in IndexEntries(kg)
          /\ <<"C", heap[r].id>> \in IndexEntries(kg)

\* C5: after any sequence of add_statement operations (re-adding an id with
\* other triplets included), for every entity e and every id s in the bucket
\* of e, the statement now stored under s has a triplet whose subject or
\* object is e.
C5_IndexDerivedFromStored ==
    \A entry \in IndexEntries(kg) :
        /\ DictHas(kg.statements, entry[2])
        /\ MentionsEntity(heap[DictGet(kg.statements, entry[2])], entry[1])

\* C6: for every stored statement and each of its triplets, the statement's
\* id is in the bucket of the triplet's subject and in the bucket of its
\* object, and get_statements_for_entity of either name returns the statement;
\* adding a statement with no triplets stores it and leaves the index as it was.
C6_TripletsIndexed ==
    /\ \A i \in 1..Len(kg.statements) :
          LET id == kg.statements[i].key
              r == kg.statements[i].value
          IN  \A k \in 1..Len(heap[r].triplets) :
                 /\ InList(id, BucketOf(kg, heap[r].triplets[k].subject))
                 /\ InList(id, BucketOf(kg, heap[r].triplets[k].object))
                 /\ InList(r, get_statements_for_entity(kg, heap[r].triplets[k].subject))
                 /\ InList(r, get_statements_for_entity(kg, heap[r].triplets[k].object))
    /\ \A id \in Ids :
          LET g2 == add_statement(kg, Len(heap) + 1, Statement(id, <<>>, NoEvent))
          IN  /\ g2.entities = kg.entities
              /\ DictHas(g2.statements, id)

\* the store holds a statement with two triplets, one of them with the
\* subject as its object, and a statement with no triplets
C6_Witness ==
    /\ last = "add_statement"
    /\ \E r \in StoredRefs(kg) : Len(heap[r].triplets) = 2
    /\ \E r \in StoredRefs(kg) :
          /\ heap[r].triplets = <<>>
          /\ \A entry \in IndexEntries(kg) : entry[2] # heap[r].id

\* C7: re-adding a statement whose id is present replaces the stored record
\* (last write wins) and creates no duplicate: no entity bucket holds an id
\* twice, the statement map holds no id twice, and adding a statement a second
\* time leaves the store as the first add left it.
C7_ReAdd ==
    /\ NoRepeat(DictKeys(kg.statements))
    /\ \A i \in 1..Len(kg.entities) : NoRepeat(kg.entities[i].value)
    /\ \A id \in Ids : \A stmt \in NewStatements(id) :
          LET r == Len(heap) + 1
              g2 == add_statement(kg, r, stmt)
          IN  /\ DictGet(g2.statements, id) = r
              /\ StoredIds(g2) = StoredIds(kg) \cup {id}
              /\ Len(g2.statements) = Cardinality(StoredIds(g2))
              /\ add_statement(g2, r, stmt) = g2
    /\ \A r \in 1..Len(heap) :
          LET g2 == add_statement(kg, r, heap[r])
          IN  /\ DictGet(g2.statements, heap[r].id) = r
              /\ add_statement(g2, r, heap[r]) = g2

\* an id has been added twice with different triplets: the later Statement is
\* the one stored
C7_Witness ==
    /\ last = "add_statement"
    /\ \E r1, r2 \in 1..Len(heap) :
          /\ r1 < r2
          /\ heap[r1].id = heap[r2].id
          /\ heap[r1].triplets # <<>>
          /\ heap[r2].triplets # <<>>
          /\ heap[r1].triplets # heap[r2].triplets
          /\ DictGet(kg.statements, heap[r2].id) = r2

\* C8: invalidate_statement(target, by) appends by to the invalidated_by of
\* the statement stored under target and changes nothing else; when target is
\* not in the store, the whole store is as it was.
C8_InvalidateFrame ==
    [][ \A target \in Ids, by \in InvalidatorIds :
          InvalidateStep(target, by) =>
            /\ kg' = kg
            /\ Len(heap') = Len(heap)
            /\ \A r \in 1..Len(heap) :
                 heap'[r] =
                    IF /\ DictHas(kg.statements, target)
                       /\ r = DictGet(kg.statements, target)
                    THEN [heap[r] EXCEPT !.invalidated_by = Append(@, by)]
                    ELSE heap[r] ]_vars

\* a stored statement has been invalidated while another stored one was not
C8_Witness ==
    /\ last = "invalidate_statement"
    /\ \E r1, r2 \in StoredRefs(kg) :
          /\ Len(heap[r1].invalidated_by) = 1
          /\ heap[r2].invalidated_by = <<>>

\* C9: along every sequence of add_statement, invalidate_statement and
\* workflow adds, the set of ids of the statement map and the set of
\* (entity, id) index entries only grow.
C9_OnlyGrows ==
    [][ last' \in StoreOps =>
          /\ StoredIds(kg) \subseteq StoredIds(kg')
          /\ IndexEntries(kg) \subseteq IndexEntries(kg') ]_vars

\* a statement superseded by a workflow add is still stored and indexed
C9_Witness ==
    /\ last = "add_document"
    /\ \E r \in StoredRefs(kg) :
          /\ heap[r].invalidated_by # <<>>
          /\ <<"B", heap[r].id>> \in IndexEntries(kg)

\* C10: get_valid_statements_at(t) returns exactly the stored statements that
\* are valid at t, each once, whatever their invalidated_by: an invalidated
\* statement is returned by get_valid_statements_at at the instants it is
\* valid at, and by get_statements_for_entity for the entities it mentions.
C10_ValidAtIgnoresInvalidation ==
    /\ \A t \in Instants :
          LET got == get_valid_statements_at(heap, kg, t)
          IN  /\ Range(got) = {r \in StoredRefs(kg) : ValidAt(heap[r], t)}
              /\ NoRepeat(got)
    /\ \A r \in StoredRefs(kg) :
          heap[r].invalidated_by # <<>> =>
             \A name \in EntityNames :
                MentionsEntity(heap[r], name) =>
                   InList(r, get_statements_for_entity(kg, name))

\* an invalidated statement with a validity window is stored: it is returned
\* at an instant of the window and not after it
C10_Witness ==
    \E r \in StoredRefs(kg) :
        /\ heap[r].invalidated_by # <<>>
        /\ InList(r, get_valid_statements_at(heap, kg, 1))
        /\ ~InList(r, get_valid_statements_at(heap, kg, 2))
        /\ InList(r, get_statements_for_entity(kg, "B"))

\* t_created of a statement, None when it has no event
CreatedOf(stmt) ==
    IF stmt.temporal_event = NoEvent THEN None ELSE stmt.temporal_event[1].t_created

\* C11: for any two statements a and b, _statements_conflict(a, b) and
\* _statements_conflict(b, a) are never both true, and when their t_created
\* are equal neither is; for S1 = (A, p, B) created at 1 and S2 = (A, p, C)
\* created at 2, conflict(S2, S1) is true and conflict(S1, S2) is false.
C11_ConflictAsymmetric ==
    (args # <<>> /\ args[1] = "_statements_conflict" /\ ret # <<>>) =>
        LET a == args[2]
            b == args[3]
            abTriplets == <<a.triplets, b.triplets>>
            abCreated == <<CreatedOf(a), CreatedOf(b)>>
            S1 == <<Triplet("A", "p", "B")>>
            S2 == <<Triplet("A", "p", "C")>>
        IN  /\ ~(ret[1] /\ _statements_conflict(b, a))
            /\ CreatedOf(a) = CreatedOf(b) =>
                  /\ ret[1] = FALSE
                  /\ ~_statements_conflict(b, a)
            /\ (abTriplets = <<S2, S1>> /\ abCreated = <<2, 1>>) => ret[1] = TRUE
            /\ (abTriplets = <<S1, S2>> /\ abCreated = <<1, 2>>) => ret[1] = FALSE

\* _statements_conflict(S2, S1) has returned true for the later S2 = (A, p, C)
\* and the earlier S1 = (A, p, B)
C11_Witness ==
    /\ args # <<>>
    /\ args[1] = "_statements_conflict"
    /\ ret = <<TRUE>>
    /\ args[2].triplets = <<Triplet("A", "p", "C")>>
    /\ args[3].triplets = <<Triplet("A", "p", "B")>>
    /\ CreatedOf(args[2]) = 2
    /\ CreatedOf(args[3]) = 1
    /\ ~_statements_conflict(args[3], args[2])

---------------------------------------------------------------------------
(* Reads: the statements of SpecQuery are added one by one, so the objects *)
(* of the heap are in the order of their add_statement calls               *)

\* the ids that some add_statement call has indexed under name
IndexedIds(h, name) ==
    {h[r].id : r \in {r2 \in 1..Len(h) : MentionsEntity(h[r2], name)}}

\* the first add_statement call that has put id into the bucket of name
FirstIndexed(h, name, id) ==
    CHOOSE r \in 1..Len(h) :
        /\ h[r].id = id
        /\ MentionsEntity(h[r], name)
        /\ \A r2 \in 1..(r - 1) : ~(h[r2].id = id /\ MentionsEntity(h[r2], name))

\* C12: get_statements_for_entity(name) returns each statement indexed under
\* name exactly once, in the order in which their ids were first put into
\* the bucket of name (re-adding an id does not move it), and skips an id
\* that is not in the statement map; for a name that is not in the index it
\* returns the empty list; the store is as it was.
C12_EntityStatements ==
    [][ last' = "get_statements_for_entity" =>
          LET name == args'[2]
              got == ret'[1]
          IN  /\ kg' = kg
              /\ heap' = heap
              /\ NoRepeat(got)
              /\ Range(got) = {DictGet(kg.statements, id) : id \in IndexedIds(heap, name)}
              /\ \A i, j \in 1..Len(got) :
                    i < j => FirstIndexed(heap, name, heap[got[i]].id)
                                < FirstIndexed(heap, name, heap[got[j]].id)
              /\ ~DictHas(kg.entities, name) => got = <<>>
              /\ kg.statements # <<>> =>
                    get_statements_for_entity([kg EXCEPT !.statements = Tail(@)], name)
                       = SelectSeq(got, LAMBDA r : r # kg.statements[1].value) ]_vars

\* get_statements_for_entity has returned two statements, the first of them
\* under an id that was re-added after the id of the second was indexed
C12_Witness ==
    /\ last = "get_statements_for_entity"
    /\ Len(heap) = 3
    /\ heap[1].id = heap[3].id
    /\ ret[1] = <<3, 2>>

\* the sort key of a timeline entry, as the specification words it
CreatedOrValidFrom(entry) ==
    IF entry.temporal_event.t_created # None THEN entry.temporal_event.t_created
    ELSE IF entry.temporal_event.t_valid # None THEN entry.temporal_event.t_valid
    ELSE DatetimeMin

\* C13: get_timeline_for_entity returns its entries in non-decreasing order
\* of the sort key (t_created if set, else t_valid if set, else the minimum
\* instant), and two entries with equal sort keys are in the order in which
\* their statement ids were inserted for that entity.
C13_TimelineSorted ==
    last = "get_timeline_for_entity" =>
        LET name == args[2]
            timeline == ret[1]
        IN  \A i, j \in 1..Len(timeline) :
               i < j =>
                  /\ CreatedOrValidFrom(timeline[i]) <= CreatedOrValidFrom(timeline[j])
                  /\ CreatedOrValidFrom(timeline[i]) = CreatedOrValidFrom(timeline[j]) =>
                        FirstIndexed(heap, name, timeline[i].statement_id)
                           < FirstIndexed(heap, name, timeline[j].statement_id)

\* the timeline of A has the statement with no instant first, though it was
\* added last, and then two statements with the key 1 (one by t_created, one
\* by t_valid) in the order they were added
C13_Witness ==
    /\ last = "get_timeline_for_entity"
    /\ args[2] = "A"
    /\ Len(heap) = 3
    /\ heap[1].id = TextStatementId(1)
    /\ heap[2].id = TextStatementId(0)
    /\ heap[3].id = TextStatementId(2)
    /\ Len(ret[1]) = 3
    /\ ret[1][1].statement_id = TextStatementId(2)
    /\ ret[1][2].statement_id = TextStatementId(1)
    /\ ret[1][3].statement_id = TextStatementId(0)
    /\ ret[1][2].temporal_event.t_created = 1
    /\ ret[1][3].temporal_event.t_created = None

\* the canonical string form of a triplet: "subject" - "predicate" - "object"
CanonicalForm(t) ==
    "\"" \o t.subject \o "\" - \"" \o t.predicate \o "\" - \"" \o t.object \o "\""

\* C14: get_timeline_for_entity(name) has exactly one entry for each statement
\* that get_statements_for_entity(name) returns and that has a TemporalEvent,
\* and no entry for a statement without one; the entry carries the
\* statement's id, text, temporal class, fact type, its triplets in canonical
\* string form and its temporal event.
C14_TimelineEntries ==
    last = "get_timeline_for_entity" =>
        LET name == args[2]
            timeline == ret[1]
            withEvent == {r \in Range(get_statements_for_entity(kg, name)) :
                            heap[r].temporal_event # NoEvent}
        IN  /\ Len(timeline) = Cardinality(withEvent)
            /\ \A r \in withEvent :
                  \E i \in 1..Len(timeline) :
                     /\ timeline[i].statement_id = heap[r].id
                     /\ timeline[i].text = heap[r].text
                     /\ timeline[i].temporal_class = heap[r].temporal_class
                     /\ timeline[i].fact_type = heap[r].fact_type
                     /\ timeline[i].triplets =
                           [k \in 1..Len(heap[r].triplets) |->
                               CanonicalForm(heap[r].triplets[k])]
                     /\ timeline[i].temporal_event = heap[r].temporal_event[1]
                     /\ \A j \in 1..Len(timeline) :
                           timeline[j].statement_id = heap[r].id => j = i

\* the timeline of A has one entry, for B p A, while the store also holds a
\* statement about A with no event and a statement that does not mention A
C14_Witness ==
    /\ last = "get_timeline_for_entity"
    /\ args[2] = "A"
    /\ Len(ret[1]) = 1
    /\ ret[1][1].triplets = <<"\"B\" - \"p\" - \"A\"">>
    /\ ret[1][1].text = "t5"
    /\ Len(kg.statements) = 3
    /\ Len(get_statements_for_entity(kg, "A")) = 2

\* the effective start and end of a statement, None when it has none
EffectiveStart(stmt) ==
    IF stmt.temporal_event = NoEvent THEN None
    ELSE IF stmt.temporal_event[1].t_valid # None THEN stmt.temporal_event[1].t_valid
    ELSE stmt.temporal_event[1].t_created

EffectiveEnd(stmt) ==
    IF stmt.temporal_event = NoEvent THEN None
    ELSE IF stmt.temporal_event[1].t_invalid # None THEN stmt.temporal_event[1].t_invalid
    ELSE stmt.temporal_event[1].t_expired

\* the overlap rule of the time-range query
Overlaps(stmt, start, end) ==
    /\ EffectiveStart(stmt) # None
    /\ EffectiveStart(stmt) <= end
    /\ EffectiveEnd(stmt) = None \/ EffectiveEnd(stmt) >= start

\* a query that carries a range only
RangeQuery(start, end) == TemporalQuery("", None, <<start, end>>, "")

\* C15: a time-range query (start, end) returns exactly the stored
\* statements whose effective start (t_valid, else t_created) is <= end and
\* which have no effective end or an effective end (t_invalid, else
\* t_expired) >= start; the range (1, 2) matches a statement valid from 0
\* with no end and excludes one valid from 3 onward.
C15_RangeQuery ==
    /\ \A start, end \in Instants :
          LET got == query(heap, kg, RangeQuery(start, end), <<>>).statements
          IN  /\ NoRepeat(got)
              /\ Range(got) = {r \in StoredRefs(kg) : Overlaps(heap[r], start, end)}
    /\ (last = "query" /\ args[2].entity = "" /\ args[2].temporal_range # <<>>) =>
          LET got == ret[1].statements
              start == args[2].temporal_range[1]
              end == args[2].temporal_range[2]
          IN  /\ Range(got) = {r \in StoredRefs(kg) : Overlaps(heap[r], start, end)}
              /\ \A r \in StoredRefs(kg) :
                    /\ (EffectiveStart(heap[r]) = 0 /\ EffectiveEnd(heap[r]) = None
                        /\ <<start, end>> = <<1, 2>>) => InList(r, got)
                    /\ (EffectiveStart(heap[r]) = 3 /\ <<start, end>> = <<1, 2>>)
                          => ~InList(r, got)

\* the range query (1, 2) has returned the statement valid from 0 with no
\* end and the one valid in [1, 2), and not the stored one valid from 3
C15_Witness ==
    /\ last = "query"
    /\ args[2] = RangeQuery(1, 2)
    /\ Len(kg.statements) = 3
    /\ Len(ret[1].statements) = 2
    /\ \E r \in Range(ret[1].statements) :
          EffectiveStart(heap[r]) = 0 /\ EffectiveEnd(heap[r]) = None
    /\ \E r \in Range(ret[1].statements) : EffectiveEnd(heap[r]) = 2
    /\ \E r \in StoredRefs(kg) : EffectiveStart(heap[r]) = 3

\* C16: whenever a query carries a time range, the statements of the result
\* satisfy the time-range selection, whether or not the query also carries an
\* entity, and whenever it carries an entity they are statements of that
\* entity, whether or not a range is present.
C16_ShapesCombine ==
    last = "query" =>
        LET query_ == args[2]
            got == ret[1].statements
        IN  /\ query_.temporal_range # <<>> =>
                  \A r \in Range(got) :
                     Overlaps(heap[r], query_.temporal_range[1], query_.temporal_range[2])
            /\ query_.entity # "" =>
                  \A r \in Range(got) :
                     InList(r, get_statements_for_entity(kg, query_.entity))

\* the elements of l that satisfy ValidAt(_, t), in the order of l
RECURSIVE ValidOnes(_, _, _)
ValidOnes(h, l, t) ==
    IF l = <<>> THEN <<>>
    ELSE (IF ValidAt(h[Head(l)], t) THEN <<Head(l)>> ELSE <<>>)
         \o ValidOnes(h, Tail(l), t)

\* C17: for an entity query the statements of the result are
\* get_statements_for_entity(entity), restricted to those valid at the
\* timestamp when one is given, and the timeline of the result is
\* get_timeline_for_entity(entity) in full: it has an entry for every
\* statement of the entity with a TemporalEvent, valid at the timestamp or not.
C17_EntityQuery ==
    (last = "query" /\ args[2].entity # "") =>
        LET query_ == args[2]
            all == get_statements_for_entity(kg, query_.entity)
        IN  /\ ret[1].statements =
                  IF query_.timestamp # None THEN ValidOnes(heap, all, query_.timestamp)
                  ELSE all
            /\ ret[1].timeline = get_timeline_for_entity(heap, kg, query_.entity)
            /\ Len(ret[1].timeline) =
                  Cardinality({r \in Range(all) : heap[r].temporal_event # NoEvent})

\* the entity query for A at the instant 2 has returned one statement of
\* two (the other one is valid in [1, 2) only) and a timeline of both
C17_Witness ==
    /\ last = "query"
    /\ args[2].entity = "A"
    /\ args[2].timestamp = 2
    /\ Len(get_statements_for_entity(kg, "A")) = 2
    /\ Len(ret[1].statements) = 1
    /\ Len(ret[1].timeline) = 2
    /\ \E i \in 1..2 : ret[1].timeline[i].temporal_event.t_invalid = 2

\* C18: when a query on a store that holds statements carries a question,
\* the chat completion is handed at most 10 of the matched statements (for
\* a question alone, those a matcher selects) and the text it returns is the
\* answer of the result, verbatim; when the query carries no question the
\* answer is unset.
C18_AnswerFromCollaborator ==
    (last = "query" /\ kg.statements # <<>>) =>
        LET query_ == args[2]
            reply == args[3]
            result == ret[1]
        IN  /\ query_.question = "" => result.answer = <<>>
            /\ query_.question # "" =>
                  /\ result.context # <<>>
                  /\ Len(result.context[1]) <= ContextLimit
                  /\ Range(result.context[1]) \subseteq StoredRefs(kg)
                  /\ reply # <<>> => result.answer = reply

---------------------------------------------------------------------------
(* Persistence claims *)

\* the statements get_statements_for_entity and get_valid_statements_at
\* return, as sets of statement values
EntityResult(h, g, name) == {h[r] : r \in Range(get_statements_for_entity(g, name))}
ValidResult(h, g, t) == {h[r] : r \in Range(get_valid_statements_at(h, g, t))}

\* C19: for a store built by add_statement and invalidate_statement calls
\* (re-adds of an id included), loading the file that was just saved gives a
\* store whose get_statements_for_entity results for every entity and
\* get_valid_statements_at results for every instant equal, as sets, those
\* of the store that was saved.
C19_SaveLoadRoundTrip ==
    [][ (last = "save_to_file" /\ last' = "load_from_file") =>
          /\ \A name \in EntityNames :
                EntityResult(heap', kg', name) = EntityResult(heap, kg, name)
          /\ \A t \in Instants :
                ValidResult(heap', kg', t) = ValidResult(heap, kg, t) ]_vars

\* the (entity, id) pairs of the subjects and objects of the records of a file
RecordEntries(records) ==
    {e \in EntityNames \X {records[i].value.id : i \in 1..Len(records)} :
        \E i \in 1..Len(records) :
           /\ records[i].value.id = e[2]
           /\ MentionsEntity(records[i].value, e[1])}

\* C20: load_from_file builds the entity index by add_statement on each
\* record of the statements section alone: the loaded store is the one that
\* any file with the same statements section and another entities section
\* loads into, and its index holds exactly the (entity, id) pairs of the
\* subjects and objects of the records.
C20_LoadIgnoresEntities ==
    [][ last' = "load_from_file" =>
          /\ \A entities \in EditedEntities \cup {file[1].entities, EmptyDict} :
                load_from_file([file[1] EXCEPT !.entities = entities])
                   = [heap |-> heap', kg |-> kg', raised |-> FALSE]
          /\ IndexEntries(kg') = RecordEntries(file[1].statements) ]_vars

\* a file whose entities section was replaced has been loaded: the loaded
\* store indexes the two statements of the file and has no bucket for the
\* entity that the edited section names
C20_Witness ==
    /\ last = "load_from_file"
    /\ file[1].entities \in EditedEntities
    /\ DictHas(file[1].entities, "D")
    /\ Len(kg.statements) = 2
    /\ ~DictHas(kg.entities, "D")
    /\ <<"A", TextStatementId(0)>> \in IndexEntries(kg)
    /\ <<"C", TextStatementId(1)>> \in IndexEntries(kg)

---------------------------------------------------------------------------
(* C21: a load that meets a malformed record *)

\* C21: when load_from_file raises on a record that lacks a required field,
\* the manager's store is the store that was there before the load: the same
\* map and index over the same, unchanged Statement objects, and so none of
\* the file's records.
C21_FailedLoadKeepsStore ==
    [][ last' = "load_from_file raised" =>
          /\ kg' = kg
          /\ \A r \in StoredRefs(kg) : heap'[r] = heap[r] ]_vars

---------------------------------------------------------------------------
(* C29: the graph that the manager's query engine reads *)

\* C29: after every manager operation, returned or raised, the query engine
\* reads the KnowledgeGraph object that the manager's add operations write
\* to: query_engine.kg is self.kg, and query_entity returns what the query
\* finds in self.kg.
C29_EngineReadsManagerStore ==
    [][ /\ engine' = <<>>
        /\ last' = "query_entity" =>
              ret'[1] = query(heap, kg, TemporalQuery(args'[2], None, <<>>, ""), <<>>) ]_vars

---------------------------------------------------------------------------
(* C22: process_statement under failing extraction calls *)

\* the classification replies that name a class, with the class they name
NamedClasses ==
    {<<"ATEMPORAL", "atemporal">>, <<"Static", "static">>, <<" dynamic ", "dynamic">>}

\* the triplet reply is no list of complete triplets
TripletsFailed(reply) ==
    \/ reply = <<>>
    \/ \E i \in 1..Len(reply[1]) : DOMAIN reply[1][i] # {"subject", "predicate", "object"}

\* the event reply is no object of dates
EventFailed(reply) ==
    \/ reply = <<>>
    \/ \E key \in DOMAIN reply[1] : reply[1][key] \notin {<<>>, <<"">>}
                                      /\ ~CanParseDate(reply[1][key][1])

\* C22: process_statement returns a Statement whatever subset of the three
\* extraction calls fails, each call on its own: a failed or unrecognised
\* classification gives the class static and a recognised one its class, a
\* failed triplet extraction gives the empty list and a successful one the
\* triplets of the reply, a failed event extraction gives no TemporalEvent
\* and a successful one a TemporalEvent.
C22_ProcessStatementTotal ==
    last = "process_statement" =>
        LET stmt == ret[1]
            classification == args[5]
            triplets == args[6]
            event == args[7]
        IN  /\ DOMAIN stmt = DOMAIN Statement("", <<>>, NoEvent)
            /\ stmt.text = args[2]
            /\ stmt.fact_type = "fact"
            /\ stmt.invalidated_by = <<>>
            /\ \A c \in NamedClasses : classification = <<c[1]>> => stmt.temporal_class = c[2]
            /\ (\A c \in NamedClasses : classification # <<c[1]>>)
                  => stmt.temporal_class = "static"
            /\ TripletsFailed(triplets) => stmt.triplets = <<>>
            /\ ~TripletsFailed(triplets)
                  => /\ Len(stmt.triplets) = Len(triplets[1])
                     /\ \A i \in 1..Len(triplets[1]) :
                           stmt.triplets[i] = Triplet(triplets[1][i].subject,
                                                      triplets[1][i].predicate,
                                                      triplets[1][i].object)
            /\ EventFailed(event) <=> stmt.temporal_event = NoEvent

\* process_statement has returned a Statement although its classification
\* reply named no class, its second triplet lacked an object and one of its
\* dates could not be parsed
C22_Witness ==
    /\ last = "process_statement"
    /\ args[5] = <<"unsure">>
    /\ args[6] # <<>> /\ Len(args[6][1]) = 2 /\ TripletsFailed(args[6])
    /\ args[7] # <<>> /\ EventFailed(args[7])
    /\ ret[1].temporal_class = "static"
    /\ ret[1].triplets = <<>>
    /\ ret[1].temporal_event = NoEvent

---------------------------------------------------------------------------
(* C23: a query whose chat completion raises *)

\* C23: when the chat completion of a query raises, the query returns a
\* result all the same: its answer is the sentence "Error generating answer
\* from the knowledge graph.", its statements and its timeline are those the
\* same query selects without a question, and the store is unchanged.
C23_FailedAnswerSentinel ==
    [][ (/\ last' = "query"
         /\ args'[2].question # ""
         /\ args'[3] = <<>>
         /\ ret'[1].context # <<>>) =>
           LET selected == query(heap, kg, [args'[2] EXCEPT !.question = ""], <<>>)
           IN  /\ ret'[1].answer = <<"Error generating answer from the knowledge graph.">>
               /\ ret'[1].statements = selected.statements
               /\ ret'[1].timeline = selected.timeline
               /\ kg' = kg
               /\ heap' = heap ]_vars

\* a query with an entity and a question has handed two statements to a chat
\* completion that raised, and has returned them with a timeline
C23_Witness ==
    /\ last = "query"
    /\ args[2].question # ""
    /\ args[2].entity = "A"
    /\ args[3] = <<>>
    /\ ret[1].context # <<>>
    /\ Len(ret[1].statements) = 2
    /\ ret[1].timeline # <<>>
    /\ ret[1].answer = <<ErrorGeneratingAnswer>>

---------------------------------------------------------------------------
(* C24 to C28: the invalidation links that the manager's adds leave *)

\* C24: a call of add_statement_text or add_document appends nothing to the
\* invalidated_by of a Statement that the same call adds, and no Statement
\* has its own id in its invalidated_by, also when an added Statement has
\* the id of a stored one.
C24_NoInvalidationWithinCall ==
    [][ /\ \A r \in (Len(heap) + 1)..Len(heap') : heap'[r].invalidated_by = <<>>
        /\ \A r \in 1..Len(heap') : ~InList(heap'[r].id, heap'[r].invalidated_by) ]_vars

\* C25: invalidation is not carried on from one statement to the next: every
\* id that a call of add_statement_text or add_document appends to the
\* invalidated_by of a Statement is the id of a Statement added by that call
\* that conflicts with it directly, and the ids it held before stay as they
\* were.
C25_InvalidationDirectOnly ==
    [][ \A r \in 1..Len(heap') :
          LET before == IF r <= Len(heap) THEN heap[r].invalidated_by ELSE <<>>
              after == heap'[r].invalidated_by
          IN  /\ Len(before) <= Len(after)
              /\ SubSeq(after, 1, Len(before)) = before
              /\ \A k \in (Len(before) + 1)..Len(after) :
                    \E n \in (Len(heap) + 1)..Len(heap') :
                       /\ n > r
                       /\ heap'[n].id = after[k]
                       /\ Conflict(heap'[n], heap'[r]) ]_vars

\* three statements were added under three ids: the second has invalidated
\* the first and the third has invalidated the second; the third does not
\* conflict with the first, whose invalidated_by holds the second's id alone
C25_Witness ==
    /\ Len(heap) = 3
    /\ Len(kg.statements) = 3
    /\ heap[1].invalidated_by = <<heap[2].id>>
    /\ heap[2].invalidated_by = <<heap[3].id>>
    /\ heap[3].invalidated_by = <<>>
    /\ ~Conflict(heap[3], heap[1])

\* C28: in a store built by add_statement_text and add_document alone, after
\* every call each id in the invalidated_by of a stored Statement is the id
\* of a stored Statement; inside a call, after the invalidation and before
\* the new Statement is stored, the flagged statements name an id that the
\* map does not hold yet when that id is new.
C28_LinksNameStoredIds ==
    /\ \A r \in StoredRefs(kg) : Range(heap[r].invalidated_by) \subseteq StoredIds(kg)
    /\ \A stmt \in WorkflowStatements("new_0") :
          LET flagged == check_invalidation(stmt, ExistingStatements(heap, kg))
              between == InvalidateAll(heap, kg, flagged, 1, stmt.id)
          IN  \A r \in StoredRefs(kg) :
                 InList(heap[r].id, flagged)
                    => /\ between[r].invalidated_by = Append(heap[r].invalidated_by, stmt.id)
                       /\ stmt.id \notin StoredIds(kg)

\* a stored statement carries the id of the stored statement that has
\* invalidated it, and a further statement under an id of its own would
\* invalidate a stored one
C28_Witness ==
    /\ last = "add_statement_text"
    /\ Len(kg.statements) = 2
    /\ \E r \in StoredRefs(kg) :
          /\ heap[r].invalidated_by # <<>>
          /\ Range(heap[r].invalidated_by) \subseteq StoredIds(kg)
    /\ \E stmt \in WorkflowStatements("new_0") :
          check_invalidation(stmt, ExistingStatements(heap, kg)) # <<>>

\* C26: invalidated_by is a set: after any sequence of invalidate_statement
\* calls and of the manager's adds, also of a Statement whose id is stored
\* already, no stored Statement holds the same id twice in its
\* invalidated_by.
C26_InvalidatedByNoDuplicates ==
    \A r \in StoredRefs(kg) : NoRepeat(heap[r].invalidated_by)

\* C27: an id that is in the invalidated_by of the Statement stored under an
\* id is in the invalidated_by of the Statement stored under that id in
\* every later state, along add_statement, invalidate_statement and the
\* manager's adds.
C27_InvalidationLinksStay ==
    [][ \A i \in 1..Len(kg.statements) :
          LET s == kg.statements[i].key
          IN  /\ DictHas(kg'.statements, s)
              /\ Range(heap[DictGet(kg.statements, s)].invalidated_by)
                    \subseteq Range(heap'[DictGet(kg'.statements, s)].invalidated_by) ]_vars

---------------------------------------------------------------------------
(* C30: the read operations *)

ReadOps ==
    {"query", "get_statements_for_entity", "get_valid_statements_at",
     "get_timeline_for_entity", "get_statistics"}

\* C30: every read operation (query with any combination of entity,
\* timestamp, range and question, get_statements_for_entity,
\* get_valid_statements_at, get_timeline_for_entity, get_statistics), also
\* for an entity the store does not know, leaves the statement map, the
\* invalidated_by of every Statement and the entity index as they were, and
\* makes no bucket for an unknown entity.
C30_ReadsLeaveStore ==
    [][ last' \in ReadOps =>
          /\ kg'.statements = kg.statements
          /\ kg'.entities = kg.entities
          /\ heap' = heap
          /\ \A name \in EntityNames : DictHas(kg'.entities, name) => DictHas(kg.entities, name)
      ]_vars

\* a query with an entity that the store of two statements has no bucket
\* for, a timestamp and a question has returned nothing, and the store still
\* has no bucket for it
C30_Witness ==
    /\ last = "query"
    /\ args[2].entity = "D"
    /\ args[2].timestamp # None
    /\ args[2].question # ""
    /\ ret[1].statements = <<>>
    /\ Len(kg.statements) = 2
    /\ kg.entities # <<>>
    /\ ~DictHas(kg.entities, "D")

====
